---------------------------- MODULE Spec2Model ----------------------------
(***************************************************************************)
(* Model of the permission core (src/permissions/core.ts) and of the two   *)
(* permission kinds and checkers of the example application                *)
(* (src/unnamed/part_000).                                                 *)
(*                                                                         *)
(* JavaScript values are records of one uniform shape: t is the type tag,  *)
(* b the boolean, n the number (also the documentId field of an object),   *)
(* s the string (also the denial field of an object), keys the set of      *)
(* own property names of an object.                                        *)
(***************************************************************************)
EXTENDS Bags, FiniteSets, Integers, Sequences, TLC

VARIABLES kinds, declArgs, ret, calls, verifyCalls

vars == <<kinds, declArgs, ret, calls, verifyCalls>>

(* Bound on the number of checker invocations of one behaviour. *)
MaxCalls == 2

-----------------------------------------------------------------------------
(* JavaScript values *)

JsBool(b) == [t |-> "boolean", b |-> b, n |-> 0, s |-> "", keys |-> {}]
JsNum(n) == [t |-> "number", b |-> FALSE, n |-> n, s |-> "", keys |-> {}]
JsStr(s) == [t |-> "string", b |-> FALSE, n |-> 0, s |-> s, keys |-> {}]
JsNull == [t |-> "null", b |-> FALSE, n |-> 0, s |-> "", keys |-> {}]
JsUndefined == [t |-> "undefined", b |-> FALSE, n |-> 0, s |-> "", keys |-> {}]
JsObj(keys, s, n) == [t |-> "object", b |-> FALSE, n |-> n, s |-> s, keys |-> keys]
JsTrue == JsBool(TRUE)
JsFalse == JsBool(FALSE)

(* ToBoolean: what `!x`, `x || y` and `if (x)` test. *)
Truthy(v) ==
  CASE v.t = "boolean" -> v.b
    [] v.t = "number" -> v.n # 0
    [] v.t = "string" -> v.s # ""
    [] v.t = "null" -> FALSE
    [] v.t = "undefined" -> FALSE
    [] v.t = "object" -> TRUE

(* typeof: null is an "object". *)
TypeOf(v) == IF v.t = "null" THEN "object" ELSE v.t

(* x ?? y *)
Nullish(v) == v.t \in {"null", "undefined"}

-----------------------------------------------------------------------------
(* Completions of a call: a returned value or a thrown error.  For a promise *)
(* the same records stand for fulfilled, rejected and still pending.         *)

NoError == [name |-> "", message |-> ""]
Return(v) == [c |-> "return", val |-> v, err |-> NoError]
Throw(e) == [c |-> "throw", val |-> JsUndefined, err |-> e]
Pending == [c |-> "pending", val |-> JsUndefined, err |-> NoError]

PermissionError(message) == [name |-> "PermissionError", message |-> message]

(* The failure of a collaborator inside verify (loadDocumentMetadata). *)
LookupError == [name |-> "Error", message |-> "lookup failed"]

-----------------------------------------------------------------------------
(* Declaration layer *)

ofType == JsObj({}, "", 0)

(* declare that takes the empty token object for no argument. *)
declare_alwaysUnit(brand, type) ==
  IF Truthy(type) /\ type.keys # {}
    THEN [_brand |-> brand, _category |-> "Complex"]
    ELSE [_brand |-> brand, _category |-> "Unit"]

declare(brand, type) ==
  IF Truthy(type)
    THEN [_brand |-> brand, _category |-> "Complex"]
    ELSE [_brand |-> brand, _category |-> "Unit"]

(* unsafeGrant that answers a mismatched call with nothing. *)
unsafeGrant_defensive(perm, data) ==
  IF perm._category = "Unit"
    THEN (IF data = JsUndefined THEN JsTrue ELSE JsUndefined)
    ELSE data

(* unsafeGrant without the category test. *)
unsafeGrant_alwaysData(perm, data) == data

unsafeGrant(perm, data) ==
  IF perm._category = "Unit" THEN JsTrue ELSE data

-----------------------------------------------------------------------------
(* Denials *)

DefaultReason == "Permission denied"

(* deny with `||` in place of `??`. *)
deny_orDefault(denial) ==
  JsObj({"denial"}, IF ~Truthy(denial) THEN DefaultReason ELSE denial.s, 0)

deny(denial) ==
  JsObj({"denial"}, IF Nullish(denial) THEN DefaultReason ELSE denial.s, 0)

isDenied(perm) ==
  (TypeOf(perm) = "object" /\ Truthy(perm) /\ "denial" \in perm.keys) \/ FALSE

-----------------------------------------------------------------------------
(* checker(perm, func): each operation is given the completion r of          *)
(* func(...args); an exception thrown by func passes through.                *)

BrandMessage(perm) == "Didn't have permission \"" \o perm._brand \o "\""

(* test without the isDenied test. *)
checker_test_truthyOnly(perm, r) ==
  IF r.c = "throw" THEN r
  ELSE IF ~Truthy(r.val) THEN Return(JsNull) ELSE Return(r.val)

checker_test(perm, r) ==
  IF r.c = "throw" THEN r
  ELSE IF ~Truthy(r.val) \/ isDenied(r.val) THEN Return(JsNull) ELSE Return(r.val)

(* check that throws as enforce does. *)
checker_check_throws(perm, r) ==
  IF r.c = "throw" THEN r
  ELSE IF Truthy(r.val) /\ ~isDenied(r.val)
    THEN Return(r.val)
    ELSE Throw(PermissionError(BrandMessage(perm)))

checker_check(perm, r) ==
  IF r.c = "throw" THEN r
  ELSE IF Truthy(r.val) THEN Return(r.val) ELSE Return(deny(JsUndefined))

(* enforce with a message that leaves the brand out. *)
checker_enforce_nobrand(perm, r) ==
  IF r.c = "throw" THEN r
  ELSE IF isDenied(r.val) \/ ~Truthy(r.val)
    THEN Throw(PermissionError("Didn't have permission"))
    ELSE Return(r.val)

checker_enforce(perm, r) ==
  IF r.c = "throw" THEN r
  ELSE IF isDenied(r.val) \/ ~Truthy(r.val)
    THEN Throw(PermissionError(BrandMessage(perm)))
    ELSE Return(r.val)

(* asyncChecker(perm, func): the code after `await func(...args)`, given the *)
(* settled completion r of the awaited promise.                              *)

asyncChecker_test(perm, r) ==
  IF r.c = "throw" THEN r
  ELSE IF isDenied(r.val) \/ ~Truthy(r.val) THEN Return(JsNull) ELSE Return(r.val)

(* check that catches a rejected verify and reports it as a denial. *)
asyncChecker_check_swallow(perm, r) ==
  IF r.c = "throw" THEN Return(deny(JsUndefined))
  ELSE IF Truthy(r.val) THEN Return(r.val) ELSE Return(deny(JsUndefined))

asyncChecker_check(perm, r) ==
  IF r.c = "throw" THEN r
  ELSE IF Truthy(r.val) THEN Return(r.val) ELSE Return(deny(JsUndefined))

asyncChecker_enforce(perm, r) ==
  IF r.c = "throw" THEN r
  ELSE IF isDenied(r.val) \/ ~Truthy(r.val)
    THEN Throw(PermissionError(BrandMessage(perm)))
    ELSE Return(r.val)

-----------------------------------------------------------------------------
(* The example application: two permission kinds and the verify functions    *)
(* of the Authorizer's two checkers.                                         *)

KindNames == {"PermissionToChangeSystemSettings", "PermissionToViewDocument"}
Brands == {"ChangeSystemSettings", "PermissionToViewDocument"}

UserSessions == [id : {1, 2}, role : {"admin", "user"}]
DocumentMetadatas == [id : {5}, authorId : {1, 2}]

canChangeSystemSettings_verify(user) == JsBool(user.role = "admin")

canViewDocument_verify(document, user) ==
  IF document.authorId = user.id
    THEN JsObj({"documentId"}, "", document.id)
    ELSE deny(JsUndefined)

(* The reasons a verify function passes to deny, besides none. *)
Reasons == {"", "no"}

(* What a verify function (the parameter func) may return: the results of    *)
(* the application's two verify functions, denials with a reason, and the    *)
(* other values the untyped implementation signature (func: any) lets in.    *)
VerifyResults ==
  {canChangeSystemSettings_verify(u) : u \in UserSessions}
    \cup {canViewDocument_verify(d, u) : d \in DocumentMetadatas, u \in UserSessions}
    \cup {deny(JsStr(s)) : s \in Reasons}
    \cup {JsNum(0), JsUndefined, JsObj({}, "", 0)}

(* How a verify invocation ends: it returns (resolves with) a value or it    *)
(* throws (rejects).                                                         *)
VerifyCompletions == {Return(v) : v \in VerifyResults} \cup {Throw(LookupError)}

(* The second argument of unsafeGrant: a payload, or absent. *)
GrantData == VerifyResults

(* The second argument of declare: absent, or the token ofType returns. *)
TypeArgs == {JsUndefined, ofType}

-----------------------------------------------------------------------------
(* State *)

NoKind == [_brand |-> "", _category |-> "None"]
NoArgs == [brand |-> "", type |-> JsUndefined]
NoCall == [fn |-> "none", perm |-> NoKind, arg |-> Pending, out |-> Pending]

Declared(n) == kinds[n] # NoKind

Init ==
  /\ kinds = [n \in KindNames |-> NoKind]
  /\ declArgs = [n \in KindNames |-> NoArgs]
  /\ ret = NoCall
  /\ calls = EmptyBag
  /\ verifyCalls = 0

(* export const <n> = Permission.declare(brand, type?) *)
Declare(n, brand, type) ==
  /\ ~Declared(n)
  /\ kinds' = [kinds EXCEPT ![n] = declare(brand, type)]
  /\ declArgs' = [declArgs EXCEPT ![n] = [brand |-> brand, type |-> type]]
  /\ UNCHANGED <<ret, calls, verifyCalls>>

(* Permission.unsafeGrant(<n>, data?) *)
UnsafeGrant(n, data) ==
  /\ Declared(n)
  /\ ret' = [fn |-> "unsafeGrant", perm |-> kinds[n], arg |-> Return(data),
             out |-> Return(unsafeGrant(kinds[n], data))]
  /\ UNCHANGED <<kinds, declArgs, calls, verifyCalls>>

(* checker(<n>, func).test(...args), where func(...args) completes with r *)
Test(n, r) ==
  /\ Declared(n)
  /\ verifyCalls < MaxCalls
  /\ verifyCalls' = verifyCalls + 1
  /\ ret' = [fn |-> "test", perm |-> kinds[n], arg |-> r,
             out |-> checker_test(kinds[n], r)]
  /\ UNCHANGED <<kinds, declArgs, calls>>

(* checker(<n>, func).check(...args) *)
Check(n, r) ==
  /\ Declared(n)
  /\ verifyCalls < MaxCalls
  /\ verifyCalls' = verifyCalls + 1
  /\ ret' = [fn |-> "check", perm |-> kinds[n], arg |-> r,
             out |-> checker_check(kinds[n], r)]
  /\ UNCHANGED <<kinds, declArgs, calls>>

(* checker(<n>, func).enforce(...args) *)
Enforce(n, r) ==
  /\ Declared(n)
  /\ verifyCalls < MaxCalls
  /\ verifyCalls' = verifyCalls + 1
  /\ ret' = [fn |-> "enforce", perm |-> kinds[n], arg |-> r,
             out |-> checker_enforce(kinds[n], r)]
  /\ UNCHANGED <<kinds, declArgs, calls>>

Next ==
  \/ \E n \in KindNames, brand \in Brands, type \in TypeArgs : Declare(n, brand, type)
  \/ \E n \in KindNames, data \in GrantData : UnsafeGrant(n, data)
  \/ \E n \in KindNames, r \in VerifyCompletions : Test(n, r)
  \/ \E n \in KindNames, r \in VerifyCompletions : Check(n, r)
  \/ \E n \in KindNames, r \in VerifyCompletions : Enforce(n, r)

Spec == Init /\ [][Next]_vars

-----------------------------------------------------------------------------
(* Asynchronous checkers.  A call is a record in the bag calls: the          *)
(* operation, the kind its checker closed over, where the async function     *)
(* stands, the completion of the awaited verify promise and the completion   *)
(* of the operation's own promise.                                           *)

AsyncCall(fn, perm) ==
  [fn |-> fn, perm |-> perm, pc |-> "awaiting", r |-> Pending, out |-> Pending]

Replace(c, d) == calls' = (calls (-) SetToBag({c})) (+) SetToBag({d})

(* The module of the application, initialised: the two kinds as declared. *)
InitAsync ==
  /\ kinds = [n \in KindNames |->
               IF n = "PermissionToChangeSystemSettings"
                 THEN declare("ChangeSystemSettings", JsUndefined)
                 ELSE declare("PermissionToViewDocument", ofType)]
  /\ declArgs = [n \in KindNames |->
               IF n = "PermissionToChangeSystemSettings"
                 THEN [brand |-> "ChangeSystemSettings", type |-> JsUndefined]
                 ELSE [brand |-> "PermissionToViewDocument", type |-> ofType]]
  /\ ret = NoCall
  /\ calls = EmptyBag
  /\ verifyCalls = 0

(* asyncChecker(<n>, func).<fn>(...args) up to its await: func is invoked. *)
AsyncStart(fn, n) ==
  /\ Declared(n)
  /\ verifyCalls < MaxCalls
  /\ verifyCalls' = verifyCalls + 1
  /\ calls' = calls (+) SetToBag({AsyncCall(fn, kinds[n])})
  /\ UNCHANGED <<kinds, declArgs, ret>>

AsyncTest(n) == AsyncStart("test", n)
AsyncCheck(n) == AsyncStart("check", n)
AsyncEnforce(n) == AsyncStart("enforce", n)

(* The promise func returned settles with r. *)
VerifySettles(c, r) ==
  /\ c.pc = "awaiting"
  /\ Replace(c, [c EXCEPT !.pc = "settled", !.r = r])
  /\ UNCHANGED <<kinds, declArgs, ret, verifyCalls>>

(* An operation that does not await the promise func returned. *)
Resumable_noAwait(c) == c.pc \in {"awaiting", "settled"}

(* `await` resumes the async function once the awaited promise has settled. *)
Resumable(c) == c.pc = "settled"

(* A result binding shared by the calls of a checker: a resuming call reads  *)
(* what some settled call wrote.                                             *)
Awaited_shared(c) == (CHOOSE d \in BagToSet(calls) : d.pc = "settled").r

(* `const result = await func(...args)`: the call's own binding. *)
Awaited(c) == c.r

ResumeTest(c) ==
  /\ c.fn = "test"
  /\ Resumable(c)
  /\ Replace(c, [c EXCEPT !.pc = "done", !.out = asyncChecker_test(c.perm, Awaited(c))])
  /\ UNCHANGED <<kinds, declArgs, ret, verifyCalls>>

ResumeCheck(c) ==
  /\ c.fn = "check"
  /\ Resumable(c)
  /\ Replace(c, [c EXCEPT !.pc = "done", !.out = asyncChecker_check(c.perm, Awaited(c))])
  /\ UNCHANGED <<kinds, declArgs, ret, verifyCalls>>

ResumeEnforce(c) ==
  /\ c.fn = "enforce"
  /\ Resumable(c)
  /\ Replace(c, [c EXCEPT !.pc = "done", !.out = asyncChecker_enforce(c.perm, Awaited(c))])
  /\ UNCHANGED <<kinds, declArgs, ret, verifyCalls>>

NextAsync ==
  \/ \E n \in KindNames : AsyncTest(n)
  \/ \E n \in KindNames : AsyncCheck(n)
  \/ \E n \in KindNames : AsyncEnforce(n)
  \/ \E c \in BagToSet(calls), r \in VerifyCompletions : VerifySettles(c, r)
  \/ \E c \in BagToSet(calls) : ResumeTest(c)
  \/ \E c \in BagToSet(calls) : ResumeCheck(c)
  \/ \E c \in BagToSet(calls) : ResumeEnforce(c)

SpecAsync == InitAsync /\ [][NextAsync]_vars

TypeOK ==
  /\ verifyCalls \in 0..MaxCalls
  /\ BagCardinality(calls) <= MaxCalls

-----------------------------------------------------------------------------
(* Properties *)

(* The checker invocations that have produced their outcome: the synchronous *)
(* one that returned last and the asynchronous ones that are done.           *)
Finished ==
  (IF ret.fn \in {"test", "check", "enforce"}
     THEN {[fn |-> ret.fn, perm |-> ret.perm, r |-> ret.arg, out |-> ret.out]}
     ELSE {})
  \cup {[fn |-> c.fn, perm |-> c.perm, r |-> c.r, out |-> c.out] :
          c \in {d \in BagToSet(calls) : d.pc = "done"}}

(* The discrimination rule as the specification words it. *)
IsDenial(v) == v.t = "object" /\ "denial" \in v.keys
IsFalsy(v) ==
  \/ v.t \in {"null", "undefined"}
  \/ v.t = "boolean" /\ ~v.b
  \/ v.t = "number" /\ v.n = 0
  \/ v.t = "string" /\ v.s = ""
Failure(v) == IsDenial(v) \/ IsFalsy(v)

Contains(s, t) ==
  \E i \in 1..(Len(s) - Len(t) + 1) : SubSeq(s, i, i + Len(t) - 1) = t

RaisesPermissionError(f) ==
  /\ f.out.c = "throw"
  /\ f.out.err.name = "PermissionError"
  /\ Contains(f.out.err.message, f.perm._brand)

(* A payload: a number or an object that is no denial. *)
IsPayload(v) == v.t \in {"number", "object"} /\ ~IsDenial(v)

(* C1: for a Complex kind and any payload value v that verify returns, test, *)
(* check and enforce each yield exactly v.                                   *)
C1_PayloadCarried ==
  \A f \in Finished :
    (f.perm._category = "Complex" /\ f.r.c = "return" /\ IsPayload(f.r.val))
      => f.out = Return(f.r.val)

(* C2: for a Unit kind, verify returning true makes test, check and enforce  *)
(* return the literal true; verify returning false makes test return null,   *)
(* check return a Denial and enforce raise a PermissionError whose message   *)
(* contains the kind's brand.                                                *)
C2_UnitOutcomes ==
  \A f \in Finished :
    f.perm._category = "Unit" =>
      /\ f.r = Return(JsTrue) => f.out = Return(JsTrue)
      /\ f.r = Return(JsFalse) =>
           /\ f.fn = "test" => f.out = Return(JsNull)
           /\ f.fn = "check" => f.out.c = "return" /\ IsDenial(f.out.val)
           /\ f.fn = "enforce" => RaisesPermissionError(f)

C2_Witness ==
  /\ ret.fn = "enforce"
  /\ ret.perm._category = "Unit"
  /\ ret.arg = Return(JsFalse)
  /\ ret.out.c = "throw"

(* C3: test, check and enforce apply the same rule to what verify returned:  *)
(* a Denial or a falsy value is a failure (null, a Denial, a raise), every   *)
(* other value is handed back as the instance; a Denial is never handed back *)
(* as an instance by test or enforce and true is never a Denial.             *)
C3_OneRule ==
  /\ ~isDenied(JsTrue)
  /\ \A f \in Finished :
       f.r.c = "return" =>
         /\ ~Failure(f.r.val) => f.out = Return(f.r.val)
         /\ Failure(f.r.val) =>
              /\ f.fn = "test" => f.out = Return(JsNull)
              /\ f.fn = "check" => f.out.c = "return" /\ IsDenial(f.out.val)
              /\ f.fn = "enforce" => f.out.c = "throw"

C3_Witness ==
  /\ ret.fn = "test"
  /\ ret.arg.c = "return"
  /\ IsDenial(ret.arg.val)
  /\ ret.out = Return(JsNull)

(* C4: check hands back deny(reason) with the reason supplied, the empty     *)
(* string included, and answers a falsy verify result, or deny() without a   *)
(* reason, with a Denial whose reason is "Permission denied".                *)
C4_DenialReason ==
  \A f \in Finished :
    f.fn = "check" =>
      /\ \A s \in Reasons \cup {"Permission denied"} :
           f.r = Return(deny(JsStr(s))) =>
             f.out.c = "return" /\ IsDenial(f.out.val) /\ f.out.val.s = s
      /\ (f.r.c = "return" /\ (IsFalsy(f.r.val) \/ f.r.val = deny(JsUndefined))) =>
           f.out.c = "return" /\ IsDenial(f.out.val)
             /\ f.out.val.s = "Permission denied"

C4_Witness ==
  \E c \in BagToSet(calls) :
    /\ c.fn = "check"
    /\ c.pc = "done"
    /\ c.r = Return(deny(JsStr("")))
    /\ c.out.val.s = ""

(* C5: when verify returns normally, test and check return a value and only  *)
(* enforce raises, exactly when verification failed, a PermissionError whose *)
(* message contains the brand of the checker's kind.                         *)
C5_OnlyEnforceRaises ==
  \A f \in Finished :
    f.r.c = "return" =>
      /\ f.fn \in {"test", "check"} => f.out.c = "return"
      /\ f.fn = "enforce" =>
           /\ f.out.c = "throw" <=> Failure(f.r.val)
           /\ f.out.c = "throw" => RaisesPermissionError(f)

C5_Witness ==
  /\ ret.fn = "check"
  /\ ret.arg.c = "return"
  /\ Failure(ret.arg.val)
  /\ ret.out.c = "return"

C6_GrantValue ==
  ret.fn = "unsafeGrant" =>
    /\ ret.out.c = "return"
    /\ ret.perm._category = "Unit" => ret.out.val = JsTrue
    /\ ret.perm._category = "Complex" => ret.out.val = ret.arg.val

(* C6: unsafeGrant returns, true for a Unit kind and the payload supplied    *)
(* for a Complex kind, and a grant step invokes no verify function.          *)
C6_UnsafeGrant ==
  /\ []C6_GrantValue
  /\ [][ret'.fn = "unsafeGrant" => verifyCalls' = verifyCalls]_vars

C6_Witness ==
  /\ ret.fn = "unsafeGrant"
  /\ ret.perm._category = "Unit"
  /\ ret.arg.val = JsUndefined
  /\ ret.out = Return(JsTrue)
  /\ verifyCalls = 0

(* C7: a verify that rejects makes test, check and enforce reject with that  *)
(* same failure.                                                             *)
C7_RejectionPropagates ==
  \A c \in BagToSet(calls) :
    (c.pc = "done" /\ c.r.c = "throw") => c.out = c.r

C7_Witness ==
  \E c \in BagToSet(calls) :
    /\ c.fn = "check"
    /\ c.pc = "done"
    /\ c.r = Throw(LookupError)
    /\ c.out = Throw(LookupError)

(* C8: an asynchronous call has an outcome only once its verify promise has  *)
(* settled; a call still awaiting verify has produced nothing.               *)
C8_ResultAfterVerify ==
  \A c \in BagToSet(calls) :
    /\ c.out # Pending => c.pc = "done" /\ c.r # Pending
    /\ c.pc = "awaiting" => c.out = Pending /\ c.r = Pending

C8_Witness ==
  \E c, d \in BagToSet(calls) :
    /\ c.pc = "done"
    /\ c.out.c = "return"
    /\ ~Failure(c.out.val)
    /\ d.pc = "awaiting"

OutcomeOf(fn, perm, r) ==
  CASE fn = "test" -> asyncChecker_test(perm, r)
    [] fn = "check" -> asyncChecker_check(perm, r)
    [] fn = "enforce" -> asyncChecker_enforce(perm, r)

C9_OwnResult ==
  \A c \in BagToSet(calls) : c.pc = "done" => c.out = OutcomeOf(c.fn, c.perm, c.r)

C9_OneCallPerStep ==
  \/ \E c \in BagToSet(calls') : calls' = calls (+) SetToBag({c})
  \/ \E c \in BagToSet(calls), d \in BagToSet(calls') :
       calls' = (calls (-) SetToBag({c})) (+) SetToBag({d})

(* C9: under every interleaving, the outcome of a call is a function of the  *)
(* completion of its own verify invocation, its operation and its kind, and  *)
(* a step of one call leaves the records of the other calls as they are.     *)
C9_Independent ==
  /\ []C9_OwnResult
  /\ [][C9_OneCallPerStep]_vars

C9_Witness ==
  \E c, d \in BagToSet(calls) :
    /\ c.pc = "done" /\ d.pc = "done"
    /\ c.fn = d.fn /\ c.perm = d.perm
    /\ c.r # d.r
    /\ c.out # d.out

C10_AsDeclared ==
  \A n \in KindNames :
    Declared(n) =>
      /\ kinds[n]._brand = declArgs[n].brand
      /\ declArgs[n].type = JsUndefined => kinds[n]._category = "Unit"
      /\ declArgs[n].type = ofType => kinds[n]._category = "Complex"

(* C10: declare(brand) yields a Unit descriptor and declare(brand, ofType()) *)
(* a Complex one, each with the brand passed in, and no later step changes   *)
(* a declared descriptor.                                                    *)
C10_Declare ==
  /\ []C10_AsDeclared
  /\ [][\A n \in KindNames : Declared(n) => kinds'[n] = kinds[n]]_vars

C10_Witness ==
  /\ \E n \in KindNames : kinds[n]._category = "Unit"
  /\ \E n \in KindNames : kinds[n]._category = "Complex"
  /\ ret.fn = "enforce"
  /\ ret.perm._category = "Complex"

(* A grant whose arguments do not fit the kind's category: a Unit kind with  *)
(* a payload, or a Complex kind without one.                                 *)
GrantMismatch ==
  /\ ret.fn = "unsafeGrant"
  /\ \/ ret.perm._category = "Unit" /\ ret.arg.val # JsUndefined
     \/ ret.perm._category = "Complex" /\ ret.arg.val = JsUndefined

(* A value that serves as an instance of the kind: true for a Unit kind, a  *)
(* payload that the discrimination rule takes for a success for a Complex    *)
(* kind.                                                                     *)
UsableInstance(perm, v) ==
  IF perm._category = "Unit" THEN v = JsTrue ELSE ~Failure(v)

(* C11 as stated: a mismatched grant is rejected at runtime, it returns no   *)
(* value usable as an instance of the kind.                                  *)
C11_MismatchRejected ==
  GrantMismatch =>
    ret.out.c = "throw" \/ ~UsableInstance(ret.perm, ret.out.val)

(* C11 as amended: a mismatched grant is not rejected at runtime; it         *)
(* returns without raising, the literal true for a Unit kind whatever the    *)
(* payload, and undefined for a Complex kind without a payload.              *)
C11_MismatchReturns ==
  GrantMismatch =>
    /\ ret.out.c = "return"
    /\ ret.perm._category = "Unit" =>
         ret.out.val = JsTrue /\ UsableInstance(ret.perm, ret.out.val)
    /\ ret.perm._category = "Complex" =>
         ret.out.val = JsUndefined /\ ~UsableInstance(ret.perm, ret.out.val)

C11_Witness ==
  /\ GrantMismatch
  /\ ret.perm._category = "Unit"
  /\ ret.arg.val = JsObj({"documentId"}, "", 5)
  /\ ret.out = Return(JsTrue)

=============================================================================
